---- MODULE Spec2Model ----
(***************************************************************************)
(* Employee / Building / Company / ConstructionCompany of Q1.py, Q2.py and *)
(* Q3.py (Q3.py is the richest variant and holds all of the others' code). *)
(*                                                                         *)
(* Python lists are objects: a Building or Company stores the list it was  *)
(* given (a reference), append mutates it in place and a list              *)
(* comprehension makes a new one.  The model therefore keeps a heap of     *)
(* list objects and the address each entity's __employees refers to.       *)
(***************************************************************************)
EXTENDS Integers, Sequences, FiniteSets, TLC

\* Bounds of the model (the code has none of them).
MaxLen == 2          \* longest employee list in Spec
MaxList == 6         \* longest employee list in SpecList
MaxBuildings == 3    \* longest ConstructionCompany.__buildings in Spec, SpecGroup
MaxSite == 2         \* longest ConstructionCompany.__buildings in SpecSite

\* sorted_employees[:5]
TopN == 5

Min2(a, b) == IF a <= b THEN a ELSE b

(***************************************************************************)
(* Python values.  A str and an Enum member are different kinds of value:  *)
(* BuildingType.WAREHOUSE == "WAREHOUSE" is False in Python.               *)
(***************************************************************************)
Str(s) == [type |-> "str", val |-> s]

Member(n) == [type |-> "BuildingType", val |-> n]

BuildingType ==
  { Member("WAREHOUSE"), Member("DISTRIBUTION_CENTER"),
    Member("FLEX_SPACE"), Member("MANUFACTURING_BUILDING") }

\* Enum.name: the member's name, a str
EnumName(m) == Str(m.val)

\* a == b on str / Enum members
PyEq(a, b) == a = b

None == "None"

\* return v / raise ValueError(msg); msg holds the f-string's parts
Return(v) == [status |-> "return", val |-> v]

Raise(msg) == [status |-> "ValueError", val |-> msg]

(***************************************************************************)
(* Employee objects (immutable).  Three of them, chosen so that two share  *)
(* an id, two share a name and two share an income.                        *)
(***************************************************************************)
Employee == {"emp1", "emp2", "emp3"}

employee_id(e) ==
  CASE e = "emp1" -> 1 [] e = "emp2" -> 2 [] e = "emp3" -> 1

employee_name(e) ==
  CASE e = "emp1" -> "Green Lee" [] e = "emp2" -> "Steven Smith"
    [] e = "emp3" -> "Steven Smith"

annual_income(e) ==
  CASE e = "emp1" -> 75000 [] e = "emp2" -> 75000 [] e = "emp3" -> 80000

\* the ids and names the operations are called with; id 3 and
\* "Carl Hopper" belong to no employee object above
Ids == {1, 2, 3}

Names == {"Green Lee", "Steven Smith", "Carl Hopper"}

(***************************************************************************)
(* Text.  A text is a sequence of tokens; a token is either the line break *)
(* NL or the tuple of the parts of an f-string that hold no line break.    *)
(***************************************************************************)
NL == <<"\n">>

RECURSIVE Join(_, _)
\* sep.join(texts)
Join(sep, texts) ==
  IF texts = <<>> THEN <<>>
  ELSE IF Len(texts) = 1 THEN texts[1]
  ELSE texts[1] \o <<sep>> \o Join(sep, Tail(texts))

\* Employee.display
Employee_display(e) ==
  << <<"ID: ", employee_id(e), ", Name: ", employee_name(e),
       ", Income: $", annual_income(e)>> >>

(***************************************************************************)
(* Building and Company: the same code twice, on the entity's list.        *)
(***************************************************************************)
Building_add_employee(emps, e) == Append(emps, e)

\* a slip: only the first employee of the name goes (as list.remove would do)
Building_remove_employee_First(emps, name) ==
  LET named == {i \in 1..Len(emps) : employee_name(emps[i]) = name}
      first == CHOOSE i \in named : \A j \in named : i <= j
  IN  IF named = {} THEN emps
      ELSE SubSeq(emps, 1, first - 1) \o SubSeq(emps, first + 1, Len(emps))

Building_remove_employee(emps, name) ==
  SelectSeq(emps, LAMBDA e : employee_name(e) # name)

\* a slip: x goes before the elements of equal key (equal keys end reversed)
InsertByIncome_Unstable(sorted, x) ==
  LET k == Cardinality({i \in 1..Len(sorted) :
                          annual_income(sorted[i]) > annual_income(x)})
  IN  SubSeq(sorted, 1, k) \o <<x>> \o SubSeq(sorted, k + 1, Len(sorted))

\* one step of the stable sort: x goes after every element whose key is
\* not smaller (reverse=True keeps equal keys in their original order)
InsertByIncome(sorted, x) ==
  LET k == Cardinality({i \in 1..Len(sorted) :
                          annual_income(sorted[i]) >= annual_income(x)})
  IN  SubSeq(sorted, 1, k) \o <<x>> \o SubSeq(sorted, k + 1, Len(sorted))

RECURSIVE SortedByIncome(_)
\* sorted(emps, key=lambda e: e.annual_income, reverse=True)
SortedByIncome(emps) ==
  IF emps = <<>> THEN <<>>
  ELSE InsertByIncome(SortedByIncome(SubSeq(emps, 1, Len(emps) - 1)),
                      emps[Len(emps)])

Building_get_top_five_employees(emps) ==
  LET sorted_employees == SortedByIncome(emps)
  IN  SubSeq(sorted_employees, 1, Min2(TopN, Len(sorted_employees)))

RECURSIVE Building_get_employee_from(_, _, _)
Building_get_employee_from(emps, id, i) ==
  IF i > Len(emps) THEN Raise(<<"Employee with ID ", id, " not found">>)
  ELSE IF employee_id(emps[i]) = id THEN Return(emps[i])
  ELSE Building_get_employee_from(emps, id, i + 1)

\* a slip: the scan keeps going and the last employee of the id is returned
Building_get_employee_Last(emps, id) ==
  LET hits == {i \in 1..Len(emps) : employee_id(emps[i]) = id}
  IN  IF hits = {} THEN Raise(<<"Employee with ID ", id, " not found">>)
      ELSE Return(emps[CHOOSE i \in hits : \A j \in hits : j <= i])

Building_get_employee(emps, id) == Building_get_employee_from(emps, id, 1)

\* a slip: the "Employees:" line is left out
Building_display_NoLabel(name, area, type, emps) ==
  << <<"Building Name: ", name, ", Area: ", area, ", Type: ", type.val>>, NL >>
  \o Join(NL, [i \in 1..Len(emps) |-> Employee_display(emps[i])])

Building_display(name, area, type, emps) ==
  << <<"Building Name: ", name, ", Area: ", area, ", Type: ", type.val>>,
     NL, <<"Employees:">>, NL >>
  \o Join(NL, [i \in 1..Len(emps) |-> Employee_display(emps[i])])

Company_add_employee(emps, e) == Append(emps, e)

\* a slip: only the first employee of the name goes
Company_remove_employee_First(emps, name) ==
  LET named == {i \in 1..Len(emps) : employee_name(emps[i]) = name}
      first == CHOOSE i \in named : \A j \in named : i <= j
  IN  IF named = {} THEN emps
      ELSE SubSeq(emps, 1, first - 1) \o SubSeq(emps, first + 1, Len(emps))

Company_remove_employee(emps, name) ==
  SelectSeq(emps, LAMBDA e : employee_name(e) # name)

Company_get_top_five_employees(emps) ==
  LET sorted_employees == SortedByIncome(emps)
  IN  SubSeq(sorted_employees, 1, Min2(TopN, Len(sorted_employees)))

RECURSIVE Company_get_employee_from(_, _, _)
Company_get_employee_from(emps, id, i) ==
  IF i > Len(emps) THEN Raise(<<"Employee with ID ", id, " not found">>)
  ELSE IF employee_id(emps[i]) = id THEN Return(emps[i])
  ELSE Company_get_employee_from(emps, id, i + 1)

Company_get_employee(emps, id) == Company_get_employee_from(emps, id, 1)

Company_display(name, emps) ==
  << <<"Company Name: ", name>>, NL, <<"Employees:">>, NL >>
  \o Join(NL, [i \in 1..Len(emps) |-> Employee_display(emps[i])])

(***************************************************************************)
(* State.                                                                  *)
(***************************************************************************)
VARIABLES
  heap,         \* list objects: address -> the list's elements
  b_employees,  \* Building.__employees: the list's address (0: no such building)
  b_type,       \* Building.__building_type: a BuildingType member
  c_employees,  \* Company.__employees: the list's address (0: no company)
  buildings,    \* ConstructionCompany.__buildings: building objects
  cap,          \* the model's caps: on an employee list, on the building list
  ret           \* the last call: what was called and what it returned or raised

vars == <<heap, b_employees, b_type, c_employees, buildings, cap, ret>>

Bld == {"building1", "building2", "building3"}

Company == "company"

Addr == 1..(Cardinality(Bld) + 1)

building_name(b) ==
  CASE b = "building1" -> "Warehouse" [] b = "building2" -> "Annex"
    [] b = "building3" -> "Depot"

area(b) == "2500.0"


ConstructionCompany == "construction_company"

\* Building.building_type (the property): the NAME of the member, a str
Building_building_type(type) == EnumName(type)

\* Building.employees (the property): the list object itself
Building_employees(h, be, b) == h[be[b]]

(***************************************************************************)
(* The heap.  A list no entity refers to is garbage: its address is free   *)
(* and holds nothing.  A new list takes the least free address.  (The      *)
(* driver's own variable `employees` is never read after the entities are  *)
(* constructed and is not kept as a root.)                                 *)
(***************************************************************************)
Refs(be, ce) == ({be[b] : b \in Bld} \cup {ce}) \ {0}

Collect(h, be, ce) == [a \in Addr |-> IF a \in Refs(be, ce) THEN h[a] ELSE <<>>]

Least(S) == CHOOSE a \in S : \A x \in S : a <= x

\* the address of a new list made while entity `self` is rebinding its field
NewList(be, ce, self) ==
  Least(Addr \ Refs([b \in Bld |-> IF b = self THEN 0 ELSE be[b]],
                    IF self = Company THEN 0 ELSE ce))

\* the employee list an entity holds now
EmployeesOf(x) == heap[IF x = Company THEN c_employees ELSE b_employees[x]]

\* a call and its outcome.  For remove_employee, `was` is the entity's list
\* when the call was made and `again` tells that the call repeats the one
\* made just before it.
Call(op, self, args, out) ==
  [op |-> op, self |-> self, args |-> args, out |-> out, was |-> <<>>,
   again |-> FALSE]

Repeats(op, self, args) == ret.op = op /\ ret.self = self /\ ret.args = args

(***************************************************************************)
(* ConstructionCompany.                                                    *)
(***************************************************************************)
RECURSIVE ConstructionCompany_employees_from(_, _, _, _)
ConstructionCompany_employees_from(bs, h, be, i) ==
  IF i > Len(bs) THEN <<>>
  ELSE Building_employees(h, be, bs[i])
         \o ConstructionCompany_employees_from(bs, h, be, i + 1)

\* a slip: `=` for extend, so only the last building's employees are returned
ConstructionCompany_employees_LastOnly(bs, h, be) ==
  IF bs = <<>> THEN <<>> ELSE Building_employees(h, be, bs[Len(bs)])

\* ConstructionCompany.employees (the property): a new list on every read
ConstructionCompany_employees(bs, h, be) ==
  ConstructionCompany_employees_from(bs, h, be, 1)

\* a dict is the sequence of its items, in insertion order
DictHas(d, k) == \E j \in 1..Len(d) : PyEq(d[j].key, k)

DictAppendTo(d, k, v) ==
  [j \in 1..Len(d) |->
     IF PyEq(d[j].key, k) THEN [key |-> d[j].key, value |-> Append(d[j].value, v)]
     ELSE d[j]]

RECURSIVE get_building_by_type_from(_, _, _, _)
get_building_by_type_from(bs, bt, i, d) ==
  IF i > Len(bs) THEN d
  ELSE LET building == bs[i]
           k == Building_building_type(bt[building])
       IN  IF ~DictHas(d, k)
           THEN get_building_by_type_from(bs, bt, i + 1,
                  Append(d, [key |-> k, value |-> <<building>>]))
           ELSE get_building_by_type_from(bs, bt, i + 1,
                  DictAppendTo(d, k, building))

ConstructionCompany_get_building_by_type(bs, bt) ==
  get_building_by_type_from(bs, bt, 1, <<>>)

RECURSIVE NextWithId(_, _, _)
\* next((emp for emp in emps if emp.employee_id == employee_id), None)
NextWithId(emps, id, i) ==
  IF i > Len(emps) THEN None
  ELSE IF employee_id(emps[i]) = id THEN emps[i]
  ELSE NextWithId(emps, id, i + 1)

\* bool(v): None is false, an Employee (no __bool__, no __len__) is true
Truthy(v) == v # None

RECURSIVE FirstOfType(_, _, _, _)
\* the index of the first building whose building_type == building_type, 0 if none
FirstOfType(bs, bt, building_type, i) ==
  IF i > Len(bs) THEN 0
  ELSE IF PyEq(Building_building_type(bt[bs[i]]), building_type) THEN i
  ELSE FirstOfType(bs, bt, building_type, i + 1)

\* a slip: the building is looked for before the employee
ConstructionCompany_assign_CategoryFirst(bs, h, be, bt, id, building_type) ==
  LET employee == NextWithId(ConstructionCompany_employees(bs, h, be), id, 1)
      i == FirstOfType(bs, bt, building_type, 1)
  IN  IF i = 0
      THEN [out |-> Raise(<<"No building of type ", building_type, " found">>),
            at |-> 0, employee |-> None]
      ELSE IF Truthy(employee)
      THEN [out |-> Return(None), at |-> i, employee |-> employee]
      ELSE [out |-> Raise(<<"Employee with ID ", id, " not found">>), at |-> 0,
            employee |-> None]

\* the outcome of assign_employee_to_building: what it raises, or the
\* building (an index of __buildings) and the employee it appends
ConstructionCompany_assign(bs, h, be, bt, id, building_type) ==
  LET employee == NextWithId(ConstructionCompany_employees(bs, h, be), id, 1)
      i == FirstOfType(bs, bt, building_type, 1)
  IN  IF ~Truthy(employee)
      THEN [out |-> Raise(<<"Employee with ID ", id, " not found">>), at |-> 0,
            employee |-> None]
      ELSE IF i # 0 THEN [out |-> Return(None), at |-> i, employee |-> employee]
      ELSE [out |-> Raise(<<"No building of type ", building_type, " found">>),
            at |-> 0, employee |-> None]

RECURSIVE BuildingTexts(_, _, _, _, _)
BuildingTexts(bs, h, be, bt, i) ==
  IF i > Len(bs) THEN <<>>
  ELSE <<Building_display(building_name(bs[i]), area(bs[i]), bt[bs[i]],
                          Building_employees(h, be, bs[i]))>>
         \o BuildingTexts(bs, h, be, bt, i + 1)

ConstructionCompany_display(bs, h, be, bt) ==
  << <<"Construction Company Name: ", "BuildItRight Inc.", ", ",
       "Type: ", "GENERAL_CONTRACTOR">>, NL, <<"Buildings:">>, NL >>
  \o Join(NL, BuildingTexts(bs, h, be, bt, 1))

(***************************************************************************)
(* Actions: one per method.                                                *)
(***************************************************************************)
BuildingAddEmployee(b, e) ==
  /\ b_employees[b] # 0
  /\ Len(heap[b_employees[b]]) < cap.employees
  /\ heap' = [heap EXCEPT ![b_employees[b]] = Building_add_employee(@, e)]
  /\ ret' = Call("add_employee", b, <<e>>, Return(None))
  /\ UNCHANGED <<b_employees, b_type, c_employees, buildings, cap>>

BuildingRemoveEmployee(b, name) ==
  /\ b_employees[b] # 0
  /\ LET a == NewList(b_employees, c_employees, b)
         be == [b_employees EXCEPT ![b] = a]
     IN  /\ b_employees' = be
         /\ heap' = Collect([heap EXCEPT ![a] =
                               Building_remove_employee(heap[b_employees[b]], name)],
                            be, c_employees)
  /\ ret' = [Call("remove_employee", b, <<name>>, Return(None)) EXCEPT
               !.was = heap[b_employees[b]],
               !.again = Repeats("remove_employee", b, <<name>>)]
  /\ UNCHANGED <<b_type, c_employees, buildings, cap>>

BuildingGetTopFiveEmployees(b) ==
  /\ b_employees[b] # 0
  /\ ret' = Call("get_top_five_employees", b, <<>>,
                 Return(Building_get_top_five_employees(heap[b_employees[b]])))
  /\ UNCHANGED <<heap, b_employees, b_type, c_employees, buildings, cap>>

BuildingGetEmployee(b, id) ==
  /\ b_employees[b] # 0
  /\ ret' = Call("get_employee", b, <<id>>,
                 Building_get_employee(heap[b_employees[b]], id))
  /\ UNCHANGED <<heap, b_employees, b_type, c_employees, buildings, cap>>

BuildingDisplay(b) ==
  /\ b_employees[b] # 0
  /\ ret' = Call("display", b, <<>>,
                 Return(Building_display(building_name(b), area(b), b_type[b],
                                         heap[b_employees[b]])))
  /\ UNCHANGED <<heap, b_employees, b_type, c_employees, buildings, cap>>

CompanyAddEmployee(e) ==
  /\ c_employees # 0
  /\ Len(heap[c_employees]) < cap.employees
  /\ heap' = [heap EXCEPT ![c_employees] = Company_add_employee(@, e)]
  /\ ret' = Call("add_employee", Company, <<e>>, Return(None))
  /\ UNCHANGED <<b_employees, b_type, c_employees, buildings, cap>>

CompanyRemoveEmployee(name) ==
  /\ c_employees # 0
  /\ LET a == NewList(b_employees, c_employees, Company)
     IN  /\ c_employees' = a
         /\ heap' = Collect([heap EXCEPT ![a] =
                               Company_remove_employee(heap[c_employees], name)],
                            b_employees, a)
  /\ ret' = [Call("remove_employee", Company, <<name>>, Return(None)) EXCEPT
               !.was = heap[c_employees],
               !.again = Repeats("remove_employee", Company, <<name>>)]
  /\ UNCHANGED <<b_employees, b_type, buildings, cap>>

CompanyGetTopFiveEmployees ==
  /\ c_employees # 0
  /\ ret' = Call("get_top_five_employees", Company, <<>>,
                 Return(Company_get_top_five_employees(heap[c_employees])))
  /\ UNCHANGED <<heap, b_employees, b_type, c_employees, buildings, cap>>

CompanyGetEmployee(id) ==
  /\ c_employees # 0
  /\ ret' = Call("get_employee", Company, <<id>>,
                 Company_get_employee(heap[c_employees], id))
  /\ UNCHANGED <<heap, b_employees, b_type, c_employees, buildings, cap>>

CompanyDisplay ==
  /\ c_employees # 0
  /\ ret' = Call("display", Company, <<>>,
                 Return(Company_display("SFBU Corp", heap[c_employees])))
  /\ UNCHANGED <<heap, b_employees, b_type, c_employees, buildings, cap>>

AddBuilding(b) ==
  /\ b_employees[b] # 0
  /\ Len(buildings) < cap.buildings
  /\ buildings' = Append(buildings, b)
  /\ ret' = Call("add_building", ConstructionCompany, <<b>>, Return(None))
  /\ UNCHANGED <<heap, b_employees, b_type, c_employees, cap>>

GetBuildingByType ==
  /\ ret' = Call("get_building_by_type", ConstructionCompany, <<>>,
                 Return(ConstructionCompany_get_building_by_type(buildings, b_type)))
  /\ UNCHANGED <<heap, b_employees, b_type, c_employees, buildings, cap>>

AssignEmployeeToBuilding(id, building_type) ==
  LET r == ConstructionCompany_assign(buildings, heap, b_employees, b_type,
                                      id, building_type)
  IN  /\ r.at # 0 => Len(heap[b_employees[buildings[r.at]]]) < cap.employees
      /\ heap' = IF r.at = 0 THEN heap
                 ELSE [heap EXCEPT ![b_employees[buildings[r.at]]] =
                         Building_add_employee(@, r.employee)]
      /\ ret' = Call("assign_employee_to_building", ConstructionCompany,
                     <<id, building_type>>, r.out)
      /\ UNCHANGED <<b_employees, b_type, c_employees, buildings, cap>>

GetEmployees ==
  /\ ret' = Call("employees", ConstructionCompany, <<>>,
                 Return(ConstructionCompany_employees(buildings, heap, b_employees)))
  /\ UNCHANGED <<heap, b_employees, b_type, c_employees, buildings, cap>>

ConstructionCompanyDisplay ==
  /\ ret' = Call("display", ConstructionCompany, <<>>,
                 Return(ConstructionCompany_display(buildings, heap, b_employees,
                                                    b_type)))
  /\ UNCHANGED <<heap, b_employees, b_type, c_employees, buildings, cap>>


(***************************************************************************)
(* Spec: the world of Q3's driver (main).  One list `employees` is handed  *)
(* to a Building and to a Company; the ConstructionCompany is given that   *)
(* building.  Every method is called, in any order.                        *)
(* assign_employee_to_building is called with BuildingType members, as its *)
(* signature says, and also with their names: Python checks no annotation. *)
(***************************************************************************)
InitLists == {<<>>, <<"emp1", "emp2">>}

\* the employees handed to add_employee where lists stay short
Staff == {"emp1", "emp2"}

Categories == {Member("WAREHOUSE"), Member("FLEX_SPACE")}

CategoryArgs == Categories \cup {EnumName(m) : m \in Categories}

NoCall == Call("none", "none", <<>>, Return(None))

Init ==
  /\ \E employees \in InitLists :
       heap = [a \in Addr |-> IF a = 1 THEN employees ELSE <<>>]
  /\ b_employees = [b \in Bld |-> IF b = "building1" THEN 1 ELSE 0]
  /\ c_employees = 1
  /\ b_type = [b \in Bld |-> Member("WAREHOUSE")]
  /\ buildings = <<>>
  /\ cap = [employees |-> MaxLen, buildings |-> MaxBuildings]
  /\ ret = NoCall

Next ==
  \/ \E b \in Bld, e \in Staff : BuildingAddEmployee(b, e)
  \/ \E b \in Bld, name \in Names : BuildingRemoveEmployee(b, name)
  \/ \E b \in Bld : BuildingGetTopFiveEmployees(b)
  \/ \E b \in Bld, id \in Ids : BuildingGetEmployee(b, id)
  \/ \E b \in Bld : BuildingDisplay(b)
  \/ \E e \in Staff : CompanyAddEmployee(e)
  \/ \E name \in Names : CompanyRemoveEmployee(name)
  \/ CompanyGetTopFiveEmployees
  \/ \E id \in Ids : CompanyGetEmployee(id)
  \/ CompanyDisplay
  \/ \E b \in Bld : AddBuilding(b)
  \/ GetBuildingByType
  \/ \E id \in Ids, t \in CategoryArgs : AssignEmployeeToBuilding(id, t)
  \/ GetEmployees
  \/ ConstructionCompanyDisplay

Spec == Init /\ [][Next]_vars

(***************************************************************************)
(* SpecSite: a ConstructionCompany and two buildings, each with a list of  *)
(* its own; the second building's category is any of Categories.           *)
(***************************************************************************)
InitSite ==
  /\ \E employees \in InitLists :
       heap = [a \in Addr |-> IF a = 1 THEN employees ELSE <<>>]
  /\ b_employees = [b \in Bld |-> CASE b = "building1" -> 1
                                    [] b = "building2" -> 2
                                    [] OTHER -> 0]
  /\ c_employees = 0
  /\ \E t \in Categories :
       b_type = [b \in Bld |-> IF b = "building2" THEN t ELSE Member("WAREHOUSE")]
  /\ buildings = <<>>
  /\ cap = [employees |-> MaxLen, buildings |-> MaxSite]
  /\ ret = NoCall

NextSite ==
  \/ \E b \in Bld, e \in Staff : BuildingAddEmployee(b, e)
  \/ \E b \in Bld, name \in Names : BuildingRemoveEmployee(b, name)
  \/ \E b \in Bld : AddBuilding(b)
  \/ \E id \in Ids, t \in CategoryArgs : AssignEmployeeToBuilding(id, t)
  \/ GetEmployees

SpecSite == InitSite /\ [][NextSite]_vars

(***************************************************************************)
(* SpecList: one entity alone, a Building or a Company, with a list long   *)
(* enough for get_top_five_employees to cut it.                            *)
(***************************************************************************)
InitList ==
  /\ \E employees \in InitLists :
       heap = [a \in Addr |-> IF a = 1 THEN employees ELSE <<>>]
  /\ \E entity \in {"building1", Company} :
       /\ b_employees = [b \in Bld |-> IF b = entity THEN 1 ELSE 0]
       /\ c_employees = IF entity = Company THEN 1 ELSE 0
  /\ b_type = [b \in Bld |-> Member("WAREHOUSE")]
  /\ buildings = <<>>
  /\ cap = [employees |-> MaxList, buildings |-> MaxBuildings]
  /\ ret = NoCall

NextList ==
  \/ \E b \in Bld, e \in Employee : BuildingAddEmployee(b, e)
  \/ \E b \in Bld, name \in Names : BuildingRemoveEmployee(b, name)
  \/ \E b \in Bld : BuildingGetTopFiveEmployees(b)
  \/ \E b \in Bld, id \in Ids : BuildingGetEmployee(b, id)
  \/ \E e \in Employee : CompanyAddEmployee(e)
  \/ \E name \in Names : CompanyRemoveEmployee(name)
  \/ CompanyGetTopFiveEmployees
  \/ \E id \in Ids : CompanyGetEmployee(id)

SpecList == InitList /\ [][NextList]_vars

(***************************************************************************)
(* SpecGroup: a ConstructionCompany and three buildings of any categories, *)
(* for get_building_by_type.                                               *)
(***************************************************************************)
InitGroup ==
  /\ heap = [a \in Addr |-> <<>>]
  /\ b_employees = [b \in Bld |-> 1]
  /\ c_employees = 0
  /\ b_type \in [Bld -> BuildingType]
  /\ buildings = <<>>
  /\ cap = [employees |-> MaxLen, buildings |-> MaxBuildings]
  /\ ret = NoCall

NextGroup ==
  \/ \E b \in Bld : AddBuilding(b)
  \/ GetBuildingByType

SpecGroup == InitGroup /\ [][NextGroup]_vars

(***************************************************************************)
(* SpecDisplay: display() is a function of the entities' fields.  Two      *)
(* buildings and a company are constructed, each from a list of its own,   *)
(* and the ConstructionCompany is given any building list; then display()  *)
(* is called on any of them.                                               *)
(***************************************************************************)
ListsUpTo(n, S) == UNION {[1..k -> S] : k \in 0..n}

InitDisplay ==
  /\ \E l1, l2, l3 \in ListsUpTo(MaxLen, Staff) :
       heap = [a \in Addr |-> CASE a = 1 -> l1 [] a = 2 -> l2 [] a = 3 -> l3
                                [] OTHER -> <<>>]
  /\ b_employees = [b \in Bld |-> CASE b = "building1" -> 1
                                    [] b = "building2" -> 2
                                    [] OTHER -> 0]
  /\ c_employees = 3
  /\ b_type = [b \in Bld |-> IF b = "building2" THEN Member("FLEX_SPACE")
                             ELSE Member("WAREHOUSE")]
  /\ buildings \in ListsUpTo(MaxSite, {"building1", "building2"})
  /\ cap = [employees |-> MaxLen, buildings |-> MaxSite]
  /\ ret = NoCall

NextDisplay ==
  \/ \E b \in Bld : BuildingDisplay(b)
  \/ CompanyDisplay
  \/ ConstructionCompanyDisplay

SpecDisplay == InitDisplay /\ [][NextDisplay]_vars

(***************************************************************************)
(* Properties.  What a property needs beyond the program's own operators   *)
(* is defined here, independently of them.                                 *)
(***************************************************************************)
IsCall(op) == ret.op = op

\* the positions of a list an operation keeps or finds
Positions(emps) == 1..Len(emps)

WithId(emps, id) == {i \in Positions(emps) : employee_id(emps[i]) = id}

NotNamed(emps, name) == {i \in Positions(emps) : employee_name(emps[i]) # name}

\* where position i of the list stands when the list is ordered by income,
\* highest first, equal incomes in list order
Rank(emps, i) ==
  1 + Cardinality({q \in Positions(emps) :
                     \/ annual_income(emps[q]) > annual_income(emps[i])
                     \/ /\ annual_income(emps[q]) = annual_income(emps[i])
                        /\ q < i})

\* C5: get_top_five_employees() returns min(5, n) employees of the list:
\* the result's place j holds the list's position of rank j (so no position
\* comes twice, and equal incomes come in list order), incomes descend, and
\* no employee left out earns more than one returned; the stored list is
\* left as it was.
C5_TopFive ==
  [][IsCall("get_top_five_employees")' =>
       LET emps == EmployeesOf(ret'.self)
           r == ret'.out.val
           n == Len(emps)
           k == Len(r)
           rank == [i \in Positions(emps) |-> Rank(emps, i)]
       IN  /\ ret'.out.status = "return"
           /\ k = IF n < 5 THEN n ELSE 5
           /\ \A i \in Positions(emps) : rank[i] <= k => r[rank[i]] = emps[i]
           /\ \A i1, i2 \in Positions(emps) :
                (i1 < i2 /\ annual_income(emps[i1]) = annual_income(emps[i2]))
                  => rank[i1] < rank[i2]
           /\ \A j \in 1..(k - 1) : annual_income(r[j]) >= annual_income(r[j + 1])
           /\ \A i \in Positions(emps) : rank[i] > k =>
                \A j \in 1..k : annual_income(emps[i]) <= annual_income(r[j])
           /\ UNCHANGED <<heap, b_employees, c_employees>>]_vars

\* a list of more than five, whose highest income comes last and whose equal
\* incomes come in both orders
C5_Witness ==
  /\ IsCall("get_top_five_employees")
  /\ Len(EmployeesOf(ret.self)) = 6
  /\ EmployeesOf(ret.self)[1] = "emp2"
  /\ EmployeesOf(ret.self)[2] = "emp1"
  /\ EmployeesOf(ret.self)[3] = "emp2"
  /\ EmployeesOf(ret.self)[6] = "emp3"
  /\ ret.out.val = <<"emp3", "emp2", "emp1", "emp2", "emp1">>

\* C6: get_employee(id) returns the first employee of the list with that id,
\* and raises the not-found error carrying the id when there is none; the
\* list is left as it was.
C6_GetEmployee ==
  [][IsCall("get_employee")' =>
       LET emps == EmployeesOf(ret'.self)
           id == ret'.args[1]
           hits == WithId(emps, id)
       IN  /\ hits # {} =>
                /\ ret'.out.status = "return"
                /\ ret'.out.val = emps[Least(hits)]
           /\ hits = {} =>
                /\ ret'.out.status = "ValueError"
                /\ ret'.out.val = <<"Employee with ID ", id, " not found">>
           /\ UNCHANGED <<heap, b_employees, c_employees>>]_vars

\* two employees share the id asked for; the first of them is returned
C6_Witness ==
  /\ IsCall("get_employee")
  /\ ret.args = <<1>>
  /\ Len(EmployeesOf(ret.self)) >= 3
  /\ EmployeesOf(ret.self)[1] = "emp2"
  /\ EmployeesOf(ret.self)[2] = "emp3"
  /\ EmployeesOf(ret.self)[3] = "emp1"
  /\ ret.out = Return("emp3")

\* C7: after remove_employee(name) the list is the list before the call
\* without the employees of that name, the others in their order; it is the
\* same list when no employee has the name; nothing is raised.
C7_RemoveEmployee ==
  IsCall("remove_employee") =>
    LET old == ret.was
        new == EmployeesOf(ret.self)
        kept == NotNamed(old, ret.args[1])
    IN  /\ ret.out = Return(None)
        /\ Len(new) = Cardinality(kept)
        /\ \A i \in kept : new[Cardinality({j \in kept : j <= i})] = old[i]
        /\ kept = Positions(old) => new = old

\* two employees of the name, apart from each other, were removed
C7_Witness ==
  /\ IsCall("remove_employee")
  /\ ret.args = <<"Steven Smith">>
  /\ ret.was = <<"emp2", "emp1", "emp3", "emp1">>
  /\ EmployeesOf(ret.self) = <<"emp1", "emp1">>

\* C8: a remove_employee(name) that repeats the call made just before it, on
\* the same entity with the same name, leaves the list as the first call
\* left it.
C8_RemoveIdempotent ==
  (IsCall("remove_employee") /\ ret.again) => EmployeesOf(ret.self) = ret.was

\* the second of two calls in a row, on a list the first call left non-empty
C8_Witness ==
  /\ IsCall("remove_employee")
  /\ ret.again
  /\ ret.args = <<"Steven Smith">>
  /\ EmployeesOf(ret.self) = <<"emp1", "emp1">>

\* the buildings the ConstructionCompany owns, as positions of its list
Owned == 1..Len(buildings)

\* the owned buildings that hold an employee of the id
Holders(id) == {i \in Owned : WithId(EmployeesOf(buildings[i]), id) # {}}

\* the owned buildings of a category (a BuildingType member)
OfCategory(category) == {i \in Owned : b_type[buildings[i]] = category}

\* C1: assign_employee_to_building(id, category) with a BuildingType member,
\* an owned employee of the id and an owned building of the category raises
\* nothing and appends an employee of the id to the first building of the
\* category.
C1_AssignSucceeds ==
  [][IsCall("assign_employee_to_building")' =>
       LET id == ret'.args[1]
           category == ret'.args[2]
       IN  (category \in BuildingType /\ Holders(id) # {} /\ OfCategory(category) # {})
             => LET target == buildings[Least(OfCategory(category))]
                    old == heap[b_employees[target]]
                    new == heap'[b_employees'[target]]
                IN  /\ ret'.out.status = "return"
                    /\ Len(new) = Len(old) + 1
                    /\ SubSeq(new, 1, Len(old)) = old
                    /\ employee_id(new[Len(new)]) = id]_vars

\* C2: assign_employee_to_building(id, category) with no owned employee of
\* the id raises the employee-not-found error carrying the id, whatever the
\* buildings and the category, and changes nothing.
C2_UnknownIdRaises ==
  [][IsCall("assign_employee_to_building")' =>
       LET id == ret'.args[1]
       IN  Holders(id) = {}
             => /\ ret'.out.status = "ValueError"
                /\ ret'.out.val[1] = "Employee with ID "
                /\ ret'.out.val[2] = id
                /\ ret'.out.val[3] = " not found"
                /\ UNCHANGED <<heap, b_employees, buildings>>]_vars

\* no employee of the id, and no building of the category either, among
\* buildings that hold employees
C2_Witness ==
  /\ IsCall("assign_employee_to_building")
  /\ ret.args = <<3, Member("FLEX_SPACE")>>
  /\ Len(buildings) >= 2
  /\ \A i \in Owned : EmployeesOf(buildings[i]) # <<>>
  /\ \A i \in Owned : b_type[buildings[i]] = Member("WAREHOUSE")
  /\ ret.out = Raise(<<"Employee with ID ", 3, " not found">>)

\* the number of employees in the first i owned buildings
RECURSIVE EmployeesUpTo(_)
EmployeesUpTo(i) ==
  IF i = 0 THEN 0 ELSE EmployeesUpTo(i - 1) + Len(EmployeesOf(buildings[i]))

\* v is the owned buildings' employee lists, one after the other
IsConcatenation(v) ==
  /\ Len(v) = EmployeesUpTo(Len(buildings))
  /\ \A i \in Owned : \A j \in Positions(EmployeesOf(buildings[i])) :
       v[EmployeesUpTo(i - 1) + j] = EmployeesOf(buildings[i])[j]

\* C4: ConstructionCompany.employees is the concatenation of the owned
\* buildings' current employee lists, in building order and then in each
\* building's order, in every state and whenever it is read.
C4_EmployeesIsConcatenation ==
  /\ IsConcatenation(ConstructionCompany_employees(buildings, heap, b_employees))
  /\ IsCall("employees") => IsConcatenation(ret.out.val)

\* read after adds and a remove, the second building listed first
C4_Witness ==
  /\ IsCall("employees")
  /\ buildings = <<"building2", "building1">>
  /\ EmployeesOf("building1") = <<"emp2", "emp1">>
  /\ EmployeesOf("building2") = <<"emp1">>
  /\ ret.out.val = <<"emp1", "emp2", "emp1">>

Count(seq, x) == Cardinality({i \in 1..Len(seq) : seq[i] = x})

RECURSIVE CountInGroups(_, _, _)
CountInGroups(d, x, j) ==
  IF j = 0 THEN 0 ELSE CountInGroups(d, x, j - 1) + Count(d[j].value, x)

FirstOf(category) == Least(OfCategory(category))

\* C3: get_building_by_type() returns groups that hold every owned building
\* as often as the building list does, each building under the key equal to
\* its category, a BuildingType member; a group's buildings and the groups
\* come in first-seen order.
C3_GroupedByCategory ==
  IsCall("get_building_by_type") =>
    LET d == ret.out.val
    IN  /\ \A b \in Bld : CountInGroups(d, b, Len(d)) = Count(buildings, b)
        /\ \A j \in 1..Len(d) :
             /\ d[j].key \in BuildingType
             /\ \A i \in 1..Len(d[j].value) : b_type[d[j].value[i]] = d[j].key
             /\ d[j].value = SelectSeq(buildings, LAMBDA b : b_type[b] = d[j].key)
        /\ \A j1, j2 \in 1..Len(d) :
             j1 < j2 => FirstOf(d[j1].key) < FirstOf(d[j2].key)

RECURSIVE SplitLines(_)
\* the lines of a text: what stands between its line breaks
SplitLines(text) ==
  LET breaks == {i \in 1..Len(text) : text[i] = NL}
  IN  IF breaks = {} THEN <<text>>
      ELSE <<SubSeq(text, 1, Least(breaks) - 1)>>
             \o SplitLines(SubSeq(text, Least(breaks) + 1, Len(text)))

\* the employees an entity contains
Contained(x) ==
  IF x = ConstructionCompany
  THEN ConstructionCompany_employees(buildings, heap, b_employees)
  ELSE EmployeesOf(x)

\* C9 as stated: display() returns n + 1 lines, a header line and then one
\* line per contained employee, in list order.
C9_OneLinePerEmployee ==
  IsCall("display") =>
    LET ls == SplitLines(ret.out.val)
        emps == Contained(ret.self)
    IN  /\ Len(ls) = Len(emps) + 1
        /\ \A i \in Positions(emps) : ls[i + 1] = Employee_display(emps[i])

\* the lines of a Building's or Company's employees: one each, in list order;
\* with no employee the text ends with a line break, which leaves an empty line
EmployeeLines(emps) ==
  IF emps = <<>> THEN << <<>> >>
  ELSE [i \in Positions(emps) |-> Employee_display(emps[i])]

IsHeader(line, start) == Len(line) = 1 /\ line[1][1] = start

\* a line that is wanted as it stands, and a line wanted to be the header
\* of a building
Line(l) == [header |-> FALSE, of |-> "", line |-> l]

HeaderOf(b) == [header |-> TRUE, of |-> b, line |-> <<>>]

RECURSIVE BuildingLinesFrom(_)
\* the lines of the displays of the owned buildings from the i-th on
BuildingLinesFrom(i) ==
  IF i > Len(buildings) THEN <<>>
  ELSE LET emps == EmployeeLines(EmployeesOf(buildings[i]))
       IN  <<HeaderOf(buildings[i]), Line(<<<<"Employees:">>>>)>>
             \o [j \in 1..Len(emps) |-> Line(emps[j])]
             \o BuildingLinesFrom(i + 1)

\* C9, amended: a Building's or Company's display() is the header line, the
\* line "Employees:" and one line per employee in list order (n + 2 lines for
\* n >= 1 employees, an empty third line for none); a ConstructionCompany's
\* is its header line, the line "Buildings:" and every owned building's
\* display in building order (an empty third line for none).
C9_DisplayLines ==
  IsCall("display") =>
    LET ls == SplitLines(ret.out.val)
        n == Len(Contained(ret.self))
    IN  IF ret.self # ConstructionCompany
        THEN /\ Len(ls) = IF n = 0 THEN 3 ELSE n + 2
             /\ IsHeader(ls[1], IF ret.self = Company THEN "Company Name: "
                                ELSE "Building Name: ")
             /\ ls[2] = <<<<"Employees:">>>>
             /\ SubSeq(ls, 3, Len(ls)) = EmployeeLines(Contained(ret.self))
        ELSE LET want == BuildingLinesFrom(1)
             IN  /\ Len(ls) = IF buildings = <<>> THEN 3 ELSE 2 + Len(want)
                 /\ IsHeader(ls[1], "Construction Company Name: ")
                 /\ ls[2] = <<<<"Buildings:">>>>
                 /\ buildings = <<>> => ls[3] = <<>>
                 /\ \A i \in 1..Len(want) :
                      IF want[i].header
                      THEN /\ IsHeader(ls[2 + i], "Building Name: ")
                           /\ ls[2 + i][1][2] = building_name(want[i].of)
                      ELSE ls[2 + i] = want[i].line

\* the ConstructionCompany's display over a building of no employee and then
\* a building of two
C9_Witness ==
  /\ IsCall("display")
  /\ ret.self = ConstructionCompany
  /\ buildings = <<"building2", "building1">>
  /\ EmployeesOf("building2") = <<>>
  /\ EmployeesOf("building1") = <<"emp2", "emp1">>
  /\ Len(SplitLines(ret.out.val)) = 9

\* C10: add_employee and remove_employee on a Building leave the Company's
\* employee list as it was, and the same calls on the Company leave every
\* Building's list as it was.
C10_ListsAreSeparate ==
  [][(IsCall("add_employee")' \/ IsCall("remove_employee")') =>
       /\ ret'.self \in Bld => heap'[c_employees'] = heap[c_employees]
       /\ ret'.self = Company =>
            \A b \in Bld : b_employees[b] # 0 =>
              heap'[b_employees'[b]] = heap[b_employees[b]]]_vars

====
